---- MODULE Spec2Model ----
(***************************************************************************)
(* Model of scripts/amazon_full_pipeline_v2.py: the field normalizers, the *)
(* cleaning function load_and_clean and the stages run by main.            *)
(*                                                                         *)
(* Conventions                                                             *)
(*  - A text is a TLA+ string; characters are one-character strings.       *)
(*  - A float is an integer number of thousandths (Scale); the inputs of   *)
(*    the model carry at most three decimals, so no value is rounded by the  *)
(*    representation itself.                                               *)
(*  - A cell of a data frame is a record [k, s, n]: k = "nan" (NaN, NaT,   *)
(*    None), "str" (text s), "num" (float n, thousandths), "bool"        *)
(*    (n = 1 is True), "date" (n = year*10000 + month*100 + day).          *)
(*  - The source file is stored as mis-decoded UTF-8, so the character     *)
(*    class of clean_price holds the three characters of the mis-decoded   *)
(*    rupee sign and not the rupee sign itself.  MOJIBAKE stands for any   *)
(*    of those three characters and RUPEE for U+20B9.                      *)
(*  - The pandas calls are modelled as pandas 2.2 defines them (the        *)
(*    dashboard pages of the repository use the "ME" frequency alias,      *)
(*    which needs pandas >= 2.2).                                          *)
(***************************************************************************)
EXTENDS Integers, Sequences, FiniteSets, TLC

(***************************************************************************)
(* Bounds of the model.                                                    *)
(***************************************************************************)
MaxRows == 3
MaxTokens == 3

Scale == 10 * 10 * 10

RUPEE == "^"
MOJIBAKE == "~"

\* U+0130, the capital I with a dot, whose lower case is "i" followed by the
\* combining dot U+0307 (a character that is neither a letter nor a space)
DOTTED_I == "@"
COMBINING_DOT == "*"

VARIABLES
  csv,      \* the input file: header and text rows
  export,   \* args.export_csv, drawn where main tests it (line 424)
  pc,       \* the stage main is about to run
  raw,      \* main: the frame read for the QA counts
  df,       \* the frame load_and_clean builds and main passes on
  qa,       \* outputs/qa/cleaning_summary.csv
  db,       \* table "transactions" of the SQLite file
  eda,      \* outputs/eda/*.csv
  out,      \* outputs/amazon_cleaned.csv
  err,      \* the exception that ended the run
  fn,       \* the normalizer under call
  arg,      \* its arguments
  res       \* its result

pipeVars == <<csv, export, pc, raw, df, qa, db, eda, out, err>>
fnVars == <<fn, arg, res>>
vars == <<csv, export, pc, raw, df, qa, db, eda, out, err, fn, arg, res>>

(***************************************************************************)
(* Text primitives (Python str and re).                                    *)
(***************************************************************************)
\* s[i-1:i]: the i-th character, "" beyond the end
Ch(s, i) == IF 1 <= i /\ i <= Len(s) THEN SubSeq(s, i, i) ELSE ""

UPPER == "ABCDEFGHIJKLMNOPQRSTUVWXYZ"
LOWER == "abcdefghijklmnopqrstuvwxyz"
DIGITS == "0123456789"

IndexIn(alphabet, c) ==
  IF \E i \in 1..Len(alphabet) : Ch(alphabet, i) = c
  THEN CHOOSE i \in 1..Len(alphabet) : Ch(alphabet, i) = c
  ELSE 0

CharsOf(alphabet) == {Ch(alphabet, i) : i \in 1..Len(alphabet)}

\* str.lower() and str.upper() of one letter, and int() of one digit
LowerOf ==
  [c \in CharsOf(UPPER) |-> Ch(LOWER, IndexIn(UPPER, c))]
  @@ (DOTTED_I :> "i" \o COMBINING_DOT)
UpperOf == [c \in CharsOf(LOWER) |-> Ch(UPPER, IndexIn(LOWER, c))]
DigitOf == [c \in CharsOf(DIGITS) |-> IndexIn(DIGITS, c) - 1]

IsDigit(c) == c \in DOMAIN DigitOf
IsUpper(c) == c \in DOMAIN LowerOf
IsLower(c) == c \in DOMAIN UpperOf
IsAlpha(c) == IsUpper(c) \/ IsLower(c)
IsSpace(c) == c = " "

LowerCh(c) == IF IsUpper(c) THEN LowerOf[c] ELSE c
UpperCh(c) == IF IsLower(c) THEN UpperOf[c] ELSE c

RECURSIVE StrLower(_)
StrLower(s) ==
  IF s = "" THEN "" ELSE LowerCh(Ch(s, 1)) \o StrLower(SubSeq(s, 2, Len(s)))

RECURSIVE StrUpper(_)
StrUpper(s) ==
  IF s = "" THEN "" ELSE UpperCh(Ch(s, 1)) \o StrUpper(SubSeq(s, 2, Len(s)))

\* str.strip()
RECURSIVE LStrip(_)
LStrip(s) ==
  IF s # "" /\ IsSpace(Ch(s, 1)) THEN LStrip(SubSeq(s, 2, Len(s))) ELSE s

RECURSIVE RStrip(_)
RStrip(s) ==
  IF s # "" /\ IsSpace(Ch(s, Len(s))) THEN RStrip(SubSeq(s, 1, Len(s) - 1)) ELSE s

Strip(s) == LStrip(RStrip(s))

StartsWith(s, p) == Len(p) <= Len(s) /\ SubSeq(s, 1, Len(p)) = p

\* re.search of a literal: p occurs somewhere in s
Contains(s, p) ==
  \E i \in 1..(Len(s) - Len(p) + 1) : SubSeq(s, i, i + Len(p) - 1) = p

ContainsAny(s, ps) == \E p \in ps : Contains(s, p)

\* str.replace(old, new): every non-overlapping occurrence, left to right
RECURSIVE Replace(_, _, _)
Replace(s, old, new) ==
  IF s = "" THEN ""
  ELSE IF StartsWith(s, old)
       THEN new \o Replace(SubSeq(s, Len(old) + 1, Len(s)), old, new)
       ELSE Ch(s, 1) \o Replace(SubSeq(s, 2, Len(s)), old, new)

\* re.sub of a character class by ""
RECURSIVE RemoveChars(_, _)
RemoveChars(s, cs) ==
  IF s = "" THEN ""
  ELSE (IF Ch(s, 1) \in cs THEN "" ELSE Ch(s, 1))
       \o RemoveChars(SubSeq(s, 2, Len(s)), cs)

\* re.sub(r"\s+", " ", s): every run of whitespace becomes one space
RECURSIVE CollapseSpace(_)
CollapseSpace(s) ==
  IF s = "" THEN ""
  ELSE IF IsSpace(Ch(s, 1))
       THEN " " \o CollapseSpace(LStrip(s))
       ELSE Ch(s, 1) \o CollapseSpace(SubSeq(s, 2, Len(s)))

normalize_space(s) == Strip(CollapseSpace(s))

\* str.title(): a letter that follows a non-letter is upper-cased, every
\* other letter is lower-cased
RECURSIVE TitleFrom(_, _)
TitleFrom(s, prevAlpha) ==
  IF s = "" THEN ""
  ELSE LET c == Ch(s, 1) IN
       (IF prevAlpha THEN LowerCh(c) ELSE UpperCh(c))
       \o TitleFrom(SubSeq(s, 2, Len(s)), IsAlpha(c))

Title(s) == TitleFrom(s, FALSE)

\* length of the longest prefix of s made of digits: what \d+ consumes
RECURSIVE DigitRun(_)
DigitRun(s) ==
  IF s # "" /\ IsDigit(Ch(s, 1)) THEN 1 + DigitRun(SubSeq(s, 2, Len(s))) ELSE 0

RECURSIVE SpaceRun(_)
SpaceRun(s) ==
  IF s # "" /\ IsSpace(Ch(s, 1)) THEN 1 + SpaceRun(SubSeq(s, 2, Len(s))) ELSE 0

\* int() of a text of digits
RECURSIVE DigitsValue(_)
DigitsValue(s) ==
  IF s = "" THEN 0
  ELSE DigitsValue(SubSeq(s, 1, Len(s) - 1)) * 10 + DigitOf[Ch(s, Len(s))]

RECURSIVE NatToStr(_)
NatToStr(n) ==
  IF n < 10 THEN Ch(DIGITS, n + 1)
  ELSE NatToStr(n \div 10) \o Ch(DIGITS, (n % 10) + 1)


(***************************************************************************)
(* Cells and floats.                                                       *)
(***************************************************************************)
NaN == [k |-> "nan", s |-> "", n |-> 0]
Str(t) == [k |-> "str", s |-> t, n |-> 0]
Num(v) == [k |-> "num", s |-> "", n |-> v]
Bool(b) == [k |-> "bool", s |-> "", n |-> IF b THEN 1 ELSE 0]
Date(y, m, d) == [k |-> "date", s |-> "", n |-> y * 10000 + m * 100 + d]
Raise(e) == [k |-> "raise", s |-> e, n |-> 0]

\* pd.isna
isna(x) == x.k = "nan"
Raised(x) == x.k = "raise"

\* the fractional digits f of a decimal, in thousandths
FracValue(f) ==
  LET f3 == SubSeq(f \o "000", 1, 3) IN DigitsValue(f3)

\* repr of the fractional part: trailing zeros dropped, one digit at least
RECURSIVE DropTrailingZeros(_)
DropTrailingZeros(f) ==
  IF Len(f) > 1 /\ Ch(f, Len(f)) = "0"
  THEN DropTrailingZeros(SubSeq(f, 1, Len(f) - 1))
  ELSE f

\* str(x) of a float x
FormatFloat(n) ==
  LET a == IF n < 0 THEN 0 - n ELSE n
      fr == a % Scale
      f3 == (IF fr < 10 THEN "00" ELSE IF fr < 100 THEN "0" ELSE "") \o NatToStr(fr)
  IN (IF n < 0 THEN "-" ELSE "") \o NatToStr(a \div Scale) \o "." \o DropTrailingZeros(f3)

\* str(x) of a cell
StrOf(x) ==
  CASE x.k = "str" -> x.s
    [] x.k = "num" -> FormatFloat(x.n)
    [] x.k = "bool" -> (IF x.n = 1 THEN "True" ELSE "False")
    [] OTHER -> "nan"

\* the value of "digits" followed by rest (nothing, or "." and digits), -1
\* when that is no decimal
DecimalValue(int, rest) ==
  IF rest = "" THEN (IF int = "" THEN 0 - 1 ELSE DigitsValue(int) * Scale)
  ELSE IF /\ Ch(rest, 1) = "."
          /\ DigitRun(SubSeq(rest, 2, Len(rest))) = Len(rest) - 1
          /\ (int # "" \/ Len(rest) > 1)
       THEN DigitsValue(int) * Scale + FracValue(SubSeq(rest, 2, Len(rest)))
       ELSE 0 - 1

Magnitude(body) ==
  DecimalValue(SubSeq(body, 1, DigitRun(body)), SubSeq(body, DigitRun(body) + 1, Len(body)))

FloatOf(sign, mag) ==
  IF mag < 0 THEN Raise("ValueError") ELSE Num(IF sign = "-" THEN 0 - mag ELSE mag)

SignedFloat(sign, body) ==
  IF StrLower(body) = "nan" THEN NaN ELSE FloatOf(sign, Magnitude(body))

StrippedFloat(s) ==
  IF Ch(s, 1) \in {"+", "-"} THEN SignedFloat(Ch(s, 1), SubSeq(s, 2, Len(s)))
  ELSE SignedFloat("+", s)

\* float(s): optional sign, digits with an optional fraction, or "nan";
\* surrounding whitespace is ignored; anything else raises ValueError.
\* (Exponents, underscores and infinities are outside the input alphabets.)
ParseFloat(s0) == StrippedFloat(Strip(s0))

\* int(x) of a float: truncation towards zero
IntOf(n) == IF n >= 0 THEN n \div Scale ELSE 0 - ((0 - n) \div Scale)

Min(a, b) == IF a <= b THEN a ELSE b

\* round(num/den*5, 2), ties to even, in thousandths
RoundRatio5(num, den) ==
  LET p == num * 500
      q == p \div den
      r == p % den
      up == 2 * r > den \/ (2 * r = den /\ q % 2 = 1)
  IN (IF up THEN q + 1 ELSE q) * 10

(***************************************************************************)
(* Field normalizers.                                                      *)
(***************************************************************************)
PRICE_STRIPPED == {MOJIBAKE, "$", ","}

\* re.search(r"(price.*request|na|n/?a|none|null)", s, re.I)
PricePlaceholder(s) ==
  LET l == StrLower(s) IN
  \/ ContainsAny(l, {"na", "n/a", "none", "null"})
  \/ \E i \in 1..Len(l) :
       /\ StartsWith(SubSeq(l, i, Len(l)), "price")
       /\ Contains(SubSeq(l, i + 5, Len(l)), "request")

PriceOfText(s) ==
  IF s = "" \/ PricePlaceholder(s) THEN NaN
  ELSE IF Raised(ParseFloat(s)) THEN NaN ELSE ParseFloat(s)

clean_price(x) ==
  IF isna(x) THEN NaN
  ELSE PriceOfText(Strip(RemoveChars(StrOf(x), PRICE_STRIPPED)))

\* the rules without the keyword "audio"
CATEGORY_KEYWORDS_NoAudio ==
  << <<{"smartphone", "mobile", "phone"}, "Smartphones">>,
     <<{"laptop", "notebook", "ultrabook"}, "Laptops">>,
     <<{"tablet", "ipad"}, "Tablets">>,
     <<{"watch", "wearable"}, "Smart Watches">>,
     <<{"tv", "television", "entertain"}, "TV & Entertainment">>,
     <<{"headphone", "earbud", "earphone", "speaker", "soundbar"}, "Audio">> >>

CATEGORY_KEYWORDS ==
  << <<{"smartphone", "mobile", "phone"}, "Smartphones">>,
     <<{"laptop", "notebook", "ultrabook"}, "Laptops">>,
     <<{"tablet", "ipad"}, "Tablets">>,
     <<{"watch", "wearable"}, "Smart Watches">>,
     <<{"tv", "television", "entertain"}, "TV & Entertainment">>,
     <<{"audio", "headphone", "earbud", "earphone", "speaker", "soundbar"}, "Audio">> >>

\* the dict "unified" of clean_category, as key/value pairs
UNIFIED ==
  { <<"electronics smartphones", "Smartphones">>,
    <<"electronics laptops", "Laptops">>,
    <<"electronics tablets", "Tablets">>,
    <<"electronics smart watch", "Smart Watches">>,
    <<"electronics tv and entertainment", "TV & Entertainment">>,
    <<"electronics audio", "Audio">> }

\* the text matched as it is written, upper case kept
CategoryTextCaseKept(source) ==
  Replace(Replace(Replace(normalize_space(StrOf(source)), "&", " "), "/", " "), "-", " ")

\* the text a source of clean_category is matched on
CategoryText(source) ==
  Replace(Replace(Replace(StrLower(normalize_space(StrOf(source))),
                          "&", " "), "/", " "), "-", " ")

\* the label the first matching keyword rule gives s, "" when none matches
KeywordLabel(s) ==
  LET hits == {i \in 1..Len(CATEGORY_KEYWORDS) : ContainsAny(s, CATEGORY_KEYWORDS[i][1])}
  IN IF hits = {} THEN ""
     ELSE CATEGORY_KEYWORDS[CHOOSE i \in hits : \A j \in hits : i <= j][2]

UnifiedLabel(s) ==
  IF \E e \in UNIFIED : e[1] = s THEN (CHOOSE e \in UNIFIED : e[1] = s)[2] ELSE ""

LabelOfText(s) == IF KeywordLabel(s) # "" THEN KeywordLabel(s) ELSE UnifiedLabel(s)

\* the label one source gives, "" when the loop moves on to the next source
SourceLabel(source) == IF isna(source) THEN "" ELSE LabelOfText(CategoryText(source))

\* the sources consulted from the last to the first
FirstLabelReversed(a, b, c) ==
  IF c # "" THEN c ELSE IF b # "" THEN b ELSE IF a # "" THEN a ELSE "Other"

FirstLabel(a, b, c) ==
  IF a # "" THEN a ELSE IF b # "" THEN b ELSE IF c # "" THEN c ELSE "Other"

clean_category(val, subcat, product_name) ==
  FirstLabel(SourceLabel(val), SourceLabel(subcat), SourceLabel(product_name))

CITY_FIX ==
  { <<"Bangalore", "Bengaluru">>, <<"Banglore", "Bengaluru">>,
    <<"Bengalore", "Bengaluru">>, <<"Calcutta", "Kolkata">>,
    <<"Madras", "Chennai">>, <<"Delhi Ncr", "Delhi">>, <<"Chenai", "Chennai">> }

CityOfText(s) ==
  IF \E e \in CITY_FIX : e[1] = s THEN (CHOOSE e \in CITY_FIX : e[1] = s)[2] ELSE s

clean_city(city) ==
  IF isna(city) \/ Strip(StrOf(city)) = "" THEN "Unknown"
  ELSE CityOfText(Title(normalize_space(StrOf(city))))

\* the chain with a text that matches no pattern returned as it is
PaymentOfTextPassthrough(s) ==
  IF ContainsAny(s, {"UPI", "GOOGLEPAY", "GOOGLE PAY", "GPAY", "PAY",
                     "PHONEPE", "PHONE PE", "BHIM"}) THEN "UPI"
  ELSE IF ContainsAny(s, {"CREDIT", "CC"}) THEN "Credit Card"
  ELSE IF ContainsAny(s, {"DEBIT", "DC"}) THEN "Debit Card"
  ELSE IF ContainsAny(s, {"COD", "C.OD", "CO.D", "C.O.D"}) THEN "COD"
  ELSE IF ContainsAny(s, {"NETBANK", "NET BANK"}) THEN "Net Banking"
  ELSE IF ContainsAny(s, {"WALLET", "PAYTM", "AMAZONPAY", "AMAZON PAY"}) THEN "Wallet"
  ELSE IF ContainsAny(s, {"BNPL", "PAYLATER", "PAY LATER", "LAZYPAY",
                          "LAZY PAY", "SIMPL"}) THEN "BNPL"
  ELSE s

PaymentOfText(s) ==
  IF ContainsAny(s, {"UPI", "GOOGLEPAY", "GOOGLE PAY", "GPAY", "PAY",
                     "PHONEPE", "PHONE PE", "BHIM"}) THEN "UPI"
  ELSE IF ContainsAny(s, {"CREDIT", "CC"}) THEN "Credit Card"
  ELSE IF ContainsAny(s, {"DEBIT", "DC"}) THEN "Debit Card"
  ELSE IF ContainsAny(s, {"COD", "C.OD", "CO.D", "C.O.D"}) THEN "COD"
  ELSE IF ContainsAny(s, {"NETBANK", "NET BANK"}) THEN "Net Banking"
  ELSE IF ContainsAny(s, {"WALLET", "PAYTM", "AMAZONPAY", "AMAZON PAY"}) THEN "Wallet"
  ELSE IF ContainsAny(s, {"BNPL", "PAYLATER", "PAY LATER", "LAZYPAY",
                          "LAZY PAY", "SIMPL"}) THEN "BNPL"
  ELSE "Other"

clean_payment(x) ==
  IF isna(x) THEN "Other" ELSE PaymentOfText(StrUpper(normalize_space(StrOf(x))))

BoolOfText(s) ==
  IF s \in {"true", "yes", "y", "1"} THEN Bool(TRUE)
  ELSE IF s \in {"false", "no", "n", "0"} THEN Bool(FALSE)
  ELSE Bool(FALSE)

\* a NaN is a float, and int(NaN) raises ValueError
to_bool(x) ==
  IF x.k = "nan" THEN Raise("ValueError")
  ELSE IF x.k \in {"num", "bool"}
       THEN Bool(IntOf(IF x.k = "bool" THEN x.n * Scale ELSE x.n) = 1)
  ELSE BoolOfText(StrLower(Strip(StrOf(x))))

\* re.match(r"(\d+(\.\d+)?)", s): the length matched, 0 when there is no match
DecimalRun(s) ==
  IF DigitRun(s) = 0 THEN 0
  ELSE IF Ch(s, DigitRun(s) + 1) = "." /\ DigitRun(SubSeq(s, DigitRun(s) + 2, Len(s))) > 0
       THEN DigitRun(s) + 1 + DigitRun(SubSeq(s, DigitRun(s) + 2, Len(s)))
       ELSE DigitRun(s)

\* t after what [ ]* or \s* consumes
AfterSpaces(t) == SubSeq(t, SpaceRun(t) + 1, Len(t))

NoMatch == [ok |-> FALSE, a |-> "", b |-> ""]

\* a first operand a is matched and t follows it: the separator, then the
\* second operand as Run measures it
SecondOperand(a, t, Run(_)) ==
  IF Run(t) > 0 THEN [ok |-> TRUE, a |-> a, b |-> SubSeq(t, 1, Run(t))] ELSE NoMatch

Separated(a, t, sep, Run(_)) ==
  IF a # "" /\ Ch(t, 1) = sep
  THEN SecondOperand(a, AfterSpaces(SubSeq(t, 2, Len(t))), Run)
  ELSE NoMatch

\* re.match(r"(\d+(\.\d+)?)[ ]*/[ ]*(\d+(\.\d+)?)", s): groups 1 and 3
RatioMatch(s) ==
  Separated(SubSeq(s, 1, DecimalRun(s)), AfterSpaces(SubSeq(s, DecimalRun(s) + 1, Len(s))),
            "/", DecimalRun)

\* lines 140-142
RatioRating(num, den) ==
  IF den.n > 0 THEN Num(Min(RoundRatio5(num.n, den.n), 5 * Scale)) ELSE NaN

\* lines 133-142: val is float(s) or the exception it raised
RatingOf(val, m) ==
  IF ~Raised(val)
  THEN (IF isna(val) THEN NaN
        ELSE IF val.n <= 0 THEN NaN ELSE Num(Min(val.n, 5 * Scale)))
  ELSE IF m.ok THEN RatioRating(ParseFloat(m.a), ParseFloat(m.b))
  ELSE NaN

\* lines 128-132
RatingText(r) ==
  Strip(Replace(Replace(Replace(Replace(Replace(Strip(StrLower(StrOf(r))),
        "stars", ""), "star", ""), "/5.0", ""), "/5", ""), "out of 5", ""))

RatingOfText(s) == RatingOf(ParseFloat(s), RatioMatch(s))

clean_rating(r) == IF isna(r) THEN NaN ELSE RatingOfText(RatingText(r))

\* re.match(r"(\d+)\s*-\s*(\d+)", s): groups 1 and 2
RangeMatch(s) ==
  Separated(SubSeq(s, 1, DigitRun(s)), AfterSpaces(SubSeq(s, DigitRun(s) + 1, Len(s))),
            "-", DigitRun)

\* the leading integer taken whatever its size
LeadingDaysUncapped(val) == Num(val * Scale)

\* lines 161-168: val is the integer the text starts with
LeadingDays(val) ==
  IF val < 0 THEN NaN ELSE IF val > 30 THEN NaN ELSE Num(val * Scale)

DaysOfText(s, m) ==
  IF s \in {"same day", "same-day", "today"} THEN Num(0)
  ELSE IF m.ok THEN Num(((DigitsValue(m.a) + DigitsValue(m.b)) * Scale) \div 2)
  ELSE IF DigitRun(s) > 0 THEN LeadingDays(DigitsValue(SubSeq(s, 1, DigitRun(s))))
  ELSE NaN

TextDays(s) == DaysOfText(s, RangeMatch(s))

clean_delivery_days(x) == IF isna(x) THEN NaN ELSE TextDays(StrLower(Strip(StrOf(x))))

\* the buckets with exclusive upper bounds
SegmentOfExclusive(a) ==
  IF Raised(a) THEN a
  ELSE IF isna(a) THEN Str("Luxury")
  ELSE IF a.n < 5000 * Scale THEN Str("Low")
  ELSE IF a.n < 20000 * Scale THEN Str("Mid")
  ELSE IF a.n < 50000 * Scale THEN Str("High")
  ELSE IF a.n < 100000 * Scale THEN Str("Premium")
  ELSE Str("Luxury")

\* lines 172-177: a is float(amount) or the exception it raised
SegmentOf(a) ==
  IF Raised(a) THEN a
  ELSE IF isna(a) THEN Str("Luxury")
  ELSE IF a.n <= 5000 * Scale THEN Str("Low")
  ELSE IF a.n <= 20000 * Scale THEN Str("Mid")
  ELSE IF a.n <= 50000 * Scale THEN Str("High")
  ELSE IF a.n <= 100000 * Scale THEN Str("Premium")
  ELSE Str("Luxury")

\* float(amount) raises ValueError on a text that is no number
value_segment(amount) ==
  IF isna(amount) THEN Str("Unknown")
  ELSE IF amount.k = "str" THEN SegmentOf(ParseFloat(amount.s))
  ELSE SegmentOf(Num(IF amount.k = "bool" THEN amount.n * Scale ELSE amount.n))

(***************************************************************************)
(* Inputs of the normalizers: texts made of at most MaxTokens tokens.      *)
(***************************************************************************)
RECURSIVE Words(_, _)
Words(tokens, n) ==
  IF n = 0 THEN {""}
  ELSE LET shorter == Words(tokens, n - 1) IN
       shorter \cup {w \o t : w \in shorter, t \in tokens}

\* the texts pandas.read_csv turns into NaN
NA_VALUES ==
  {"", "#N/A", "#N/A N/A", "#NA", "-1.#IND", "-1.#QNAN", "-NaN", "-nan",
   "1.#IND", "1.#QNAN", "<NA>", "N/A", "NA", "NULL", "NaN", "None", "n/a",
   "nan", "null"}

\* the cells a text column can hold
TextCells(tokens) == {NaN} \cup {Str(w) : w \in Words(tokens, MaxTokens) \ NA_VALUES}

PriceTokens == {"-", "5", "0", ".", ",", "$", RUPEE, MOJIBAKE, "na", " "}
RatingTokens == {"0", "2", "4", "5", "/", ".", "-", " ", "stars", "out of 5"}

\* ratings out of a denominator that begins with 5
RatioCells == {Str("2/50"), Str("45/50"), Str("4/5.5"), Str("3/5.0")}
DeliveryTokens == {"3", "5", "40", "50", "-", " ", "same day", "same-day", "today", "d"}
PaymentTokens == {"upi", "pay", "tm", "credit", "cc", "debit", "cod", "net", " ", "bank", "cash"}
CityTokens == {"bangalore", "delhi", " ", "ncr", "B", "x", DOTTED_I}
BoolTokens == {"y", "es", "true", "1", "0", "no", " ", "T"}
CategoryCells == {NaN, Str("Electronics - Smartphones"), Str("Home & Kitchen"),
                  Str("electronics audio"), Str("Sony Bravia TV"), Str("iPad Air")}
NumCells == {Num(0), Num(1 * Scale), Num(1500), Num(2 * Scale), Num(0 - Scale),
             Num(5000 * Scale), Num(5000 * Scale + 10), Num(20000 * Scale),
             Num(20000 * Scale + 10), Num(50000 * Scale), Num(50000 * Scale + 10),
             Num(100000 * Scale), Num(100000 * Scale + 10)}

\* every keyword of the category rules, as the only source
CategoryKeywords == UNION {CATEGORY_KEYWORDS[i][1] : i \in 1..Len(CATEGORY_KEYWORDS)}

KeywordCells == {Str(k) : k \in CategoryKeywords}

\* every label clean_category can return, and every key of its table of
\* exact strings, as the only source
LabelCells ==
  {Str(CATEGORY_KEYWORDS[i][2]) : i \in 1..Len(CATEGORY_KEYWORDS)} \cup {Str("Other")}

UnifiedCells == {Str(e[1]) : e \in UNIFIED}

\* the keywords of the payment rules with their labels, and their spellings
\* in lower case, upper case and title case
PAYMENT_KEYWORDS ==
  << <<{"upi", "googlepay", "gpay", "phonepe", "bhim"}, "UPI">>,
     <<{"credit", "cc"}, "Credit Card">>,
     <<{"debit", "dc"}, "Debit Card">>,
     <<{"cod", "c.o.d"}, "COD">>,
     <<{"net banking"}, "Net Banking">>,
     <<{"wallet", "paytm", "amazonpay"}, "Wallet">>,
     <<{"bnpl", "paylater", "lazypay", "simpl"}, "BNPL">> >>

Spellings(k) == {k, StrUpper(k), Title(k)}

PaymentKeywordCells ==
  {Str(w) : w \in UNION {Spellings(k) : k \in UNION {PAYMENT_KEYWORDS[i][1] : i \in 1..Len(PAYMENT_KEYWORDS)}}}

\* the inputs a normalizer is called on
FnInputs(name) ==
  CASE name = "clean_price" -> {<<x>> : x \in TextCells(PriceTokens) \cup NumCells}
    [] name = "clean_rating" -> {<<x>> : x \in TextCells(RatingTokens) \cup RatioCells \cup NumCells}
    [] name = "clean_delivery_days" -> {<<x>> : x \in TextCells(DeliveryTokens) \cup NumCells}
    [] name = "clean_payment" -> {<<x>> : x \in TextCells(PaymentTokens) \cup PaymentKeywordCells}
    [] name = "clean_city" -> {<<x>> : x \in TextCells(CityTokens)}
    [] name = "to_bool" -> {<<x>> : x \in TextCells(BoolTokens) \cup NumCells \cup {Bool(TRUE), Bool(FALSE)}}
    [] name = "value_segment" -> {<<x>> : x \in NumCells \cup {NaN}}
    [] name = "clean_category" ->
         {<<a, b, c>> : a \in CategoryCells, b \in CategoryCells, c \in CategoryCells}
         \cup {<<a, b, NaN>> : a \in KeywordCells, b \in {NaN, Str("Home & Kitchen")}}
         \cup {<<a, NaN, NaN>> : a \in LabelCells \cup UnifiedCells}

NORMALIZERS ==
  {"clean_price", "clean_rating", "clean_delivery_days", "clean_payment", "clean_city",
   "to_bool", "value_segment", "clean_category"}

Pending == [k |-> "pending", s |-> "", n |-> 0]

(***************************************************************************)
(* The normalizers, each applied to one drawn input.                       *)
(***************************************************************************)
Apply(name, result) ==
  /\ fn = name
  /\ res = Pending
  /\ res' = result
  /\ UNCHANGED <<fn, arg>>
  /\ UNCHANGED pipeVars

Call_clean_price == Apply("clean_price", clean_price(arg[1]))
Call_clean_rating == Apply("clean_rating", clean_rating(arg[1]))
Call_clean_delivery_days == Apply("clean_delivery_days", clean_delivery_days(arg[1]))
Call_clean_payment == Apply("clean_payment", Str(clean_payment(arg[1])))
Call_clean_city == Apply("clean_city", Str(clean_city(arg[1])))
Call_to_bool == Apply("to_bool", to_bool(arg[1]))
Call_value_segment == Apply("value_segment", value_segment(arg[1]))
Call_clean_category == Apply("clean_category", Str(clean_category(arg[1], arg[2], arg[3])))

NextFn ==
  \/ Call_clean_price
  \/ Call_clean_rating
  \/ Call_clean_delivery_days
  \/ Call_clean_payment
  \/ Call_clean_city
  \/ Call_to_bool
  \/ Call_value_segment
  \/ Call_clean_category

(***************************************************************************)
(* Data frames.  A frame is [cols, rows]: cols is the column index, in     *)
(* order; a row is [idx, c]: idx its index label (the line of the file),   *)
(* c the cell of every column.                                             *)
(***************************************************************************)
Range(f) == {f[i] : i \in DOMAIN f}

HasCol(d, c) == c \in Range(d.cols)

\* df[c] = value, row by row: a new column goes to the end of the index
SetCol(d, c, F(_)) ==
  [cols |-> IF HasCol(d, c) THEN d.cols ELSE Append(d.cols, c),
   rows |-> [i \in 1..Len(d.rows) |->
               [d.rows[i] EXCEPT !.c = (c :> F(d.rows[i])) @@ @]]]

\* r.get(c) / df.get(c) of one row: None where the column is absent
Get(r, c) == IF c \in DOMAIN r.c THEN r.c[c] ELSE NaN

\* the members of seq at the positions in S, in order
RECURSIVE Pick(_, _, _)
Pick(seq, S, from) ==
  IF from > Len(seq) THEN <<>>
  ELSE (IF from \in S THEN <<seq[from]>> ELSE <<>>) \o Pick(seq, S, from + 1)

\* a text pandas reads as a number
NumericText(t) == ~Raised(ParseFloat(t))

\* the texts of column c of a file
ColumnTexts(file, c) == {file.rows[i][c] : i \in 1..Len(file.rows)}

CellOf(t, numeric) ==
  IF t \in NA_VALUES THEN NaN ELSE IF numeric THEN ParseFloat(t) ELSE Str(t)

\* pd.read_csv: the listed texts are NaN; a column whose other texts are all
\* numbers is numeric; any other column holds its texts.  (A column of
\* True/False texts is read as booleans, which every normalizer maps as it
\* maps the texts.)
NumericCols(file) ==
  {c \in Range(file.cols) : \A t \in ColumnTexts(file, c) \ NA_VALUES : NumericText(t)}

ReadRows(file, numeric) ==
  [i \in 1..Len(file.rows) |->
     [idx |-> i,
      c |-> [c \in Range(file.cols) |-> CellOf(file.rows[i][c], c \in numeric)]]]

read_csv(file) == [cols |-> file.cols, rows |-> ReadRows(file, NumericCols(file))]

(***************************************************************************)
(* Dates: pd.to_datetime(s, errors="coerce", dayfirst=...).                *)
(***************************************************************************)
AllDigits(s) == s # "" /\ DigitRun(s) = Len(s)

\* "DD/MM/YYYY" or "MM/DD/YYYY"
SlashShape(s) ==
  /\ Len(s) = 10 /\ Ch(s, 3) = "/" /\ Ch(s, 6) = "/"
  /\ AllDigits(SubSeq(s, 1, 2)) /\ AllDigits(SubSeq(s, 4, 5)) /\ AllDigits(SubSeq(s, 7, 10))

\* "YYYY-MM-DD"
IsoShape(s) ==
  /\ Len(s) = 10 /\ Ch(s, 5) = "-" /\ Ch(s, 8) = "-"
  /\ AllDigits(SubSeq(s, 1, 4)) /\ AllDigits(SubSeq(s, 6, 7)) /\ AllDigits(SubSeq(s, 9, 10))

DaysIn(y, m) ==
  IF m \in {4, 6, 9, 11} THEN 30
  ELSE IF m = 2 THEN (IF (y % 4 = 0 /\ y % 100 # 0) \/ y % 400 = 0 THEN 29 ELSE 28)
  ELSE 31

ValidDate(y, m, d) == 1 <= m /\ m <= 12 /\ 1 <= d /\ d <= DaysIn(y, m)

DateOrNaT(y, m, d) == IF ValidDate(y, m, d) THEN Date(y, m, d) ELSE NaN

\* dateutil on "a/b/y": the preferred order first, the other order when that
\* one is no date
SlashDate(a, b, y, dayfirst) ==
  IF dayfirst
  THEN (IF ValidDate(y, b, a) THEN Date(y, b, a) ELSE DateOrNaT(y, a, b))
  ELSE (IF ValidDate(y, a, b) THEN Date(y, a, b) ELSE DateOrNaT(y, b, a))

\* dateutil on "y-a-b": year, day, month when the day comes first and b can
\* be a month
DashDate(y, a, b, dayfirst) ==
  IF dayfirst /\ b <= 12 /\ ValidDate(y, b, a) THEN Date(y, b, a) ELSE DateOrNaT(y, a, b)

DateutilParse(s, dayfirst) ==
  IF SlashShape(s)
  THEN SlashDate(DigitsValue(SubSeq(s, 1, 2)), DigitsValue(SubSeq(s, 4, 5)),
                 DigitsValue(SubSeq(s, 7, 10)), dayfirst)
  ELSE IF IsoShape(s)
  THEN DashDate(DigitsValue(SubSeq(s, 1, 4)), DigitsValue(SubSeq(s, 6, 7)),
                DigitsValue(SubSeq(s, 9, 10)), dayfirst)
  ELSE NaN

DayOf(date) == date.n % 100
MonthOf(date) == (date.n \div 100) % 100
YearOf(date) == date.n \div 10000

\* the format of a text that dateutil reads as the date p: the first
\* two-digit token is the day when it equals the day and days are tried first
FormatOf(s, dayfirst, p) ==
  IF isna(p) THEN ""
  ELSE IF SlashShape(s)
       THEN (IF dayfirst
             THEN (IF DigitsValue(SubSeq(s, 1, 2)) = DayOf(p) THEN "%d/%m/%Y" ELSE "%m/%d/%Y")
             ELSE (IF DigitsValue(SubSeq(s, 1, 2)) = MonthOf(p) THEN "%m/%d/%Y" ELSE "%d/%m/%Y"))
       ELSE (IF dayfirst
             THEN (IF DigitsValue(SubSeq(s, 6, 7)) = DayOf(p) THEN "%Y-%d-%m" ELSE "%Y-%m-%d")
             ELSE (IF DigitsValue(SubSeq(s, 6, 7)) = MonthOf(p) THEN "%Y-%m-%d" ELSE "%Y-%d-%m"))

\* guess_datetime_format: the format of one text, "" when it has none
GuessFormat(s, dayfirst) == FormatOf(s, dayfirst, DateutilParse(s, dayfirst))

\* strptime of "a/b/y" or "y-a-b" with an exact format
FieldsDate(fmt, y, a, b) ==
  IF fmt \in {"%d/%m/%Y", "%Y-%d-%m"} THEN DateOrNaT(y, b, a) ELSE DateOrNaT(y, a, b)

\* strptime with an exact format, NaT when the text does not match
Strptime(s, fmt) ==
  IF fmt \in {"%d/%m/%Y", "%m/%d/%Y"} /\ SlashShape(s)
  THEN FieldsDate(fmt, DigitsValue(SubSeq(s, 7, 10)), DigitsValue(SubSeq(s, 1, 2)),
                  DigitsValue(SubSeq(s, 4, 5)))
  ELSE IF fmt \in {"%Y-%m-%d", "%Y-%d-%m"} /\ IsoShape(s)
  THEN FieldsDate(fmt, DigitsValue(SubSeq(s, 1, 4)), DigitsValue(SubSeq(s, 6, 7)),
                  DigitsValue(SubSeq(s, 9, 10)))
  ELSE NaN

\* one text parsed on its own: ISO 8601 texts first, then dateutil
ElementParse(s, dayfirst) ==
  IF IsoShape(s)
  THEN DateOrNaT(DigitsValue(SubSeq(s, 1, 4)), DigitsValue(SubSeq(s, 6, 7)),
                 DigitsValue(SubSeq(s, 9, 10)))
  ELSE DateutilParse(s, dayfirst)

\* the first non-null cell of a column, NaN when it has none
FirstNonNull(cells) ==
  IF \A i \in 1..Len(cells) : isna(cells[i]) THEN NaN
  ELSE cells[CHOOSE i \in 1..Len(cells) :
               ~isna(cells[i]) /\ \A j \in 1..(i - 1) : isna(cells[j])]

\* _guess_datetime_format_for_array
ColumnFormat(first, dayfirst) ==
  IF first.k # "str" THEN "" ELSE GuessFormat(first.s, dayfirst)

\* one cell read with the format of the column, or on its own when the
\* column has no format; numbers are nanoseconds since 1970-01-01
CellDate(x, fmt, dayfirst) ==
  IF isna(x) THEN NaN
  ELSE IF x.k = "date" THEN x
  ELSE IF x.k # "str" THEN Date(1970, 1, 1)
  ELSE IF fmt # "" THEN Strptime(x.s, fmt)
  ELSE ElementParse(x.s, dayfirst)

ColumnDates(cells, fmt, dayfirst) ==
  [i \in 1..Len(cells) |-> CellDate(cells[i], fmt, dayfirst)]

\* pd.to_datetime(cells, errors="coerce", dayfirst=dayfirst): the format is
\* guessed from the first non-null text and every text is read with it; when
\* no format can be guessed each text is parsed on its own
to_datetime(cells, dayfirst) ==
  ColumnDates(cells, ColumnFormat(FirstNonNull(cells), dayfirst), dayfirst)

\* d.loc[mask] = d2, mask given as the positions it selects
Assign(d, mask, d2) ==
  [i \in 1..Len(d) |->
     IF \E j \in 1..Len(mask) : mask[j] = i
     THEN d2[CHOOSE j \in 1..Len(mask) : mask[j] = i]
     ELSE d[i]]

\* lines 149-150
Retry(s, d, mask) ==
  Assign(d, mask, to_datetime([j \in 1..Len(mask) |-> s[mask[j]]], FALSE))

\* lines 147-148
Reparse(s, d) ==
  Retry(s, d, Pick([i \in 1..Len(s) |-> i], {i \in 1..Len(s) : isna(d[i])}, 1))

parse_date_series(s) == Reparse(s, to_datetime(s, TRUE))

(***************************************************************************)
(* load_and_clean, stage by stage.  pc names the stage about to run.       *)
(***************************************************************************)
EmptyFrame == [cols |-> <<>>, rows |-> <<>>]

Goto(next, frame) ==
  /\ pc' = next
  /\ df' = frame
  /\ UNCHANGED <<csv, export, raw, qa, db, eda, out, err>>
  /\ UNCHANGED fnVars

\* an exception nobody catches ends main; err keeps the stage that raised it
Abort(e) ==
  /\ pc' = "aborted"
  /\ err' = [at |-> pc, exc |-> e]
  /\ UNCHANGED <<csv, export, raw, df, qa, db, eda, out>>
  /\ UNCHANGED fnVars

\* the frame of an earlier call taken where there is one
LC_ReadKeepsFrame ==
  /\ pc = "lc_read"
  /\ Goto("lc_city", IF df = EmptyFrame THEN read_csv(csv) ELSE df)

\* line 184
LC_Read ==
  /\ pc = "lc_read"
  /\ Goto("lc_city", read_csv(csv))

\* lines 187-192: the first column of the file whose lower-cased name is an alias
LC_City ==
  /\ pc = "lc_city"
  /\ LET city_cols == Pick(df.cols,
                           {i \in 1..Len(df.cols) : StrLower(df.cols[i]) \in {"city", "customer_city"}}, 1)
     IN IF city_cols # <<>>
        THEN Goto("lc_dates", SetCol(df, "city", LAMBDA r : r.c[city_cols[1]]))
        ELSE Goto("lc_dates", SetCol(df, "city", LAMBDA r : Str("Unknown")))

\* df["order_date"] = d
SetDates(d, dates) ==
  [d EXCEPT !.rows = [i \in 1..Len(d.rows) |->
     [d.rows[i] EXCEPT !.c["order_date"] = dates[i]]]]

\* df.dropna(subset=["order_date"])
DropNaT(d) ==
  [d EXCEPT !.rows = Pick(d.rows, {i \in 1..Len(d.rows) : ~isna(d.rows[i].c["order_date"])}, 1)]

\* lines 194-196: to_datetime(None) is None, and None has no isna()
LC_Dates ==
  /\ pc = "lc_dates"
  /\ IF ~HasCol(df, "order_date") THEN Abort("AttributeError")
     ELSE Goto("lc_prices",
               DropNaT(SetDates(df, parse_date_series(
                 [i \in 1..Len(df.rows) |-> df.rows[i].c["order_date"]]))))

PRICE_COLS == {"original_price_inr", "discounted_price_inr", "final_amount_inr", "subtotal_inr"}

\* lines 198-201
LC_Prices ==
  /\ pc = "lc_prices"
  /\ Goto("lc_final",
          [df EXCEPT !.rows = [i \in 1..Len(df.rows) |->
             [df.rows[i] EXCEPT !.c = [c \in DOMAIN @ |->
                IF c \in PRICE_COLS THEN clean_price(@[c]) ELSE @[c]]]]])

\* Series.fillna(other): a null cell takes the cell of other in the same row
fillna(x, other) == IF isna(x) THEN other ELSE x

FALLBACK_COLS == <<"discounted_price_inr", "subtotal_inr", "original_price_inr">>

\* the chain without the default of line 212
FinalAmountNoDefault(r) ==
  fillna(fillna(fillna(Get(r, "final_amount_inr"),
                       r.c[FALLBACK_COLS[1]]),
                r.c[FALLBACK_COLS[2]]),
         r.c[FALLBACK_COLS[3]])

\* the chain with the subtotal tried before the discounted price
FinalAmountSubtotalFirst(r) ==
  fillna(fillna(fillna(fillna(Get(r, "final_amount_inr"),
                              r.c[FALLBACK_COLS[2]]),
                       r.c[FALLBACK_COLS[1]]),
                r.c[FALLBACK_COLS[3]]),
         Num(0))

\* the chain of lines 206-212 on one row
FinalAmount(r) ==
  fillna(fillna(fillna(fillna(Get(r, "final_amount_inr"),
                              r.c[FALLBACK_COLS[1]]),
                       r.c[FALLBACK_COLS[2]]),
                r.c[FALLBACK_COLS[3]]),
         Num(0))

\* lines 203-212: df.get of an absent column is None and fillna(None) raises
LC_Final ==
  /\ pc = "lc_final"
  /\ IF \E i \in 1..Len(FALLBACK_COLS) : ~HasCol(df, FALLBACK_COLS[i])
     THEN Abort("ValueError")
     ELSE Goto("lc_rating", SetCol(df, "final_amount_inr", FinalAmount))

\* lines 214-216
LC_Rating ==
  /\ pc = "lc_rating"
  /\ IF HasCol(df, "customer_rating")
     THEN Goto("lc_prime", SetCol(df, "customer_rating", LAMBDA r : clean_rating(r.c["customer_rating"])))
     ELSE Goto("lc_prime", df)

\* the three columns tested from the last to the first
PrimeSourceEligibleFirst(d) ==
  IF HasCol(d, "is_prime_eligible") THEN "is_prime_eligible"
  ELSE IF HasCol(d, "is_prime") THEN "is_prime"
  ELSE IF HasCol(d, "is_prime_member") THEN "is_prime_member"
  ELSE ""

\* the column is_prime is read from
PrimeSource(d) ==
  IF HasCol(d, "is_prime_member") THEN "is_prime_member"
  ELSE IF HasCol(d, "is_prime") THEN "is_prime"
  ELSE IF HasCol(d, "is_prime_eligible") THEN "is_prime_eligible"
  ELSE ""

\* lines 218-226
LC_Prime ==
  /\ pc = "lc_prime"
  /\ LET src == PrimeSource(df) IN
     IF src = "" THEN Goto("lc_payment", SetCol(df, "is_prime", LAMBDA r : Bool(FALSE)))
     ELSE IF \E i \in 1..Len(df.rows) : Raised(to_bool(df.rows[i].c[src]))
          THEN Abort("ValueError")
          ELSE Goto("lc_payment", SetCol(df, "is_prime", LAMBDA r : to_bool(r.c[src])))

\* lines 228-232
LC_Payment ==
  /\ pc = "lc_payment"
  /\ IF HasCol(df, "payment_method")
     THEN Goto("lc_delivery", SetCol(df, "payment_method", LAMBDA r : Str(clean_payment(r.c["payment_method"]))))
     ELSE Goto("lc_delivery", SetCol(df, "payment_method", LAMBDA r : Str("Other")))

\* lines 234-236
LC_Delivery ==
  /\ pc = "lc_delivery"
  /\ IF HasCol(df, "delivery_days")
     THEN Goto("lc_category", SetCol(df, "delivery_days", LAMBDA r : clean_delivery_days(r.c["delivery_days"])))
     ELSE Goto("lc_category", df)

\* lines 238-246
LC_Category ==
  /\ pc = "lc_category"
  /\ Goto("lc_citynorm",
          SetCol(df, "category",
                 LAMBDA r : Str(clean_category(Get(r, "category"), Get(r, "subcategory"),
                                               Get(r, "product_name")))))

\* line 249
LC_CityNorm ==
  /\ pc = "lc_citynorm"
  /\ Goto("lc_time", SetCol(df, "city", LAMBDA r : Str(clean_city(r.c["city"]))))

\* strftime("%Y-%m")
MonthLabel(date) ==
  NatToStr(YearOf(date)) \o "-" \o (IF MonthOf(date) < 10 THEN "0" ELSE "") \o NatToStr(MonthOf(date))

\* lines 251-255
LC_Time ==
  /\ pc = "lc_time"
  /\ LET y == SetCol(df, "order_year", LAMBDA r : Num(YearOf(r.c["order_date"]) * Scale))
         m == SetCol(y, "order_month_num", LAMBDA r : Num(MonthOf(r.c["order_date"]) * Scale))
         q == SetCol(m, "order_quarter",
                     LAMBDA r : Num((((MonthOf(r.c["order_date"]) - 1) \div 3) + 1) * Scale))
     IN Goto("lc_segment", SetCol(q, "month_label", LAMBDA r : Str(MonthLabel(r.c["order_date"]))))

\* lines 257-258
LC_Segment ==
  /\ pc = "lc_segment"
  /\ Goto("lc_dup", SetCol(df, "order_value_segment", LAMBDA r : value_segment(r.c["final_amount_inr"])))

dup_keys == <<"customer_id", "product_id", "order_date", "final_amount_inr">>

\* groupby(dup_keys)["transaction_id"].transform("count") for row r: a row
\* with a null key is in no group (NaN); the others get the number of non-null
\* transaction_id cells of their group
DupCount(d, r) ==
  IF \E k \in 1..Len(dup_keys) : isna(r.c[dup_keys[k]]) THEN NaN
  ELSE Num(Cardinality({j \in 1..Len(d.rows) :
             /\ \A k \in 1..Len(dup_keys) : d.rows[j].c[dup_keys[k]] = r.c[dup_keys[k]]
             /\ ~isna(d.rows[j].c["transaction_id"])}) * Scale)

\* lines 260-267
LC_Dup ==
  /\ pc = "lc_dup"
  /\ IF \A k \in 1..Len(dup_keys) : HasCol(df, dup_keys[k])
     THEN IF ~HasCol(df, "transaction_id") THEN Abort("KeyError")
          ELSE Goto("qa", SetCol(df, "is_possible_duplicate",
                                 LAMBDA r : Bool(~isna(DupCount(df, r)) /\ DupCount(df, r).n > 1 * Scale)))
     ELSE Goto("qa", SetCol(df, "is_possible_duplicate", LAMBDA r : Bool(FALSE)))

(***************************************************************************)
(* main and the stages that follow load_and_clean.                         *)
(***************************************************************************)
\* line 419
ReadRaw ==
  /\ pc = "read_raw"
  /\ pc' = "lc_read"
  /\ raw' = read_csv(csv)
  /\ UNCHANGED <<csv, export, df, qa, db, eda, out, err>>
  /\ UNCHANGED fnVars

\* series.value_counts(dropna=False): the values of a column with their
\* counts (no column of the model has more than five values, so head(5)
\* keeps them all; the order of the entries is not modelled)
value_counts(d, c) ==
  {<<v, Cardinality({i \in 1..Len(d.rows) : d.rows[i].c[c] = v})>> :
     v \in {d.rows[i].c[c] : i \in 1..Len(d.rows)}}

\* lines 384-407, called at line 421
write_qa_report ==
  /\ pc = "qa"
  /\ pc' = "sqlite"
  /\ LET rows_before == Len(raw.rows)
         rows_after == Len(df.rows)
         dropped == rows_before - rows_after
     IN qa' = [written |-> TRUE,
               rows_before |-> rows_before,
               rows_after |-> rows_after,
               rows_dropped_due_to_invalid_dates |-> dropped,
               top_category_after |-> value_counts(df, "category"),
               top_city_after |-> value_counts(df, "city"),
               top_payment_method_after |-> value_counts(df, "payment_method")]
  /\ UNCHANGED <<csv, export, raw, df, db, eda, out, err>>
  /\ UNCHANGED fnVars

\* the stage with the frame emptied once its rows are written
save_to_sqliteConsuming ==
  /\ pc = "sqlite"
  /\ pc' = "eda"
  /\ db' = df
  /\ df' = [df EXCEPT !.rows = <<>>]
  /\ UNCHANGED <<csv, export, raw, qa, eda, out, err>>
  /\ UNCHANGED fnVars

\* lines 272-287, called at line 422: the table is replaced
save_to_sqlite ==
  /\ pc = "sqlite"
  /\ pc' = "eda"
  /\ db' = df
  /\ UNCHANGED <<csv, export, raw, df, qa, eda, out, err>>
  /\ UNCHANGED fnVars

RECURSIVE SumAmount(_, _)
SumAmount(rows, S) ==
  IF S = {} THEN 0
  ELSE LET i == CHOOSE j \in S : TRUE IN
       rows[i].c["final_amount_inr"].n + SumAmount(rows, S \ {i})

\* the groups with the amount of their first row in place of the sum
GroupRevenueFirst(d, keys) ==
  LET keyOf(r) == [k \in 1..Len(keys) |-> r.c[keys[k]]]
      grouped == {i \in 1..Len(d.rows) : \A k \in 1..Len(keys) : ~isna(d.rows[i].c[keys[k]])}
  IN {[key |-> g,
       count |-> Cardinality({i \in grouped : keyOf(d.rows[i]) = g}),
       revenue |-> SumAmount(d.rows, {CHOOSE i \in grouped : keyOf(d.rows[i]) = g})] :
        g \in {keyOf(d.rows[i]) : i \in grouped}}

\* df.groupby(keys)["final_amount_inr"].sum(): one entry per combination of
\* non-null key values (the order of the entries is not modelled)
GroupRevenue(d, keys) ==
  LET keyOf(r) == [k \in 1..Len(keys) |-> r.c[keys[k]]]
      grouped == {i \in 1..Len(d.rows) : \A k \in 1..Len(keys) : ~isna(d.rows[i].c[keys[k]])}
  IN {[key |-> g,
       count |-> Cardinality({i \in grouped : keyOf(d.rows[i]) = g}),
       revenue |-> SumAmount(d.rows, {i \in grouped : keyOf(d.rows[i]) = g})] :
        g \in {keyOf(d.rows[i]) : i \in grouped}}

\* lines 289-377, called at line 423: grouping by an absent column raises
generate_eda ==
  /\ pc = "eda"
  /\ IF ~HasCol(df, "product_id") \/ ~HasCol(df, "customer_id")
     THEN /\ pc' = "aborted"
          /\ err' = [at |-> pc, exc |-> "KeyError"]
          /\ UNCHANGED eda
     ELSE /\ pc' = "export"
          /\ eda' = [written |-> TRUE,
                     category_performance |-> GroupRevenue(df, <<"category">>),
                     city_revenue |-> GroupRevenue(df, <<"city">>),
                     payment_share |-> GroupRevenue(df, <<"payment_method">>),
                     sales_by_year |-> GroupRevenue(df, <<"order_year">>),
                     monthly_revenue |-> GroupRevenue(df, <<"month_label">>),
                     top_products |-> IF HasCol(df, "product_name")
                                      THEN GroupRevenue(df, <<"product_id", "product_name">>)
                                      ELSE GroupRevenue(df, <<"product_id">>),
                     top_customers |-> GroupRevenue(df, <<"customer_id">>),
                     prime_vs_nonprime |-> GroupRevenue(df, <<"is_prime">>),
                     total_revenue |-> SumAmount(df.rows, 1..Len(df.rows)),
                     total_orders |-> Len(df.rows)]
          /\ UNCHANGED err
  /\ UNCHANGED <<csv, export, raw, df, qa, db, out>>
  /\ UNCHANGED fnVars

\* lines 379-382, called at lines 424-425
save_clean_csv ==
  /\ pc = "export"
  /\ pc' = "done"
  /\ \E flag \in BOOLEAN :
       /\ export' = flag
       /\ out' = IF flag THEN df ELSE out
  /\ UNCHANGED <<csv, raw, df, qa, db, eda, err>>
  /\ UNCHANGED fnVars

(***************************************************************************)
(* Input files.                                                            *)
(***************************************************************************)
FILE_COLS ==
  <<"transaction_id", "order_date", "customer_id", "product_id", "product_name",
    "category", "subcategory", "original_price_inr", "discounted_price_inr",
    "subtotal_inr", "final_amount_inr", "customer_rating", "is_prime_member",
    "is_prime_eligible", "payment_method", "delivery_days", "city", "customer_city">>

BaseRow ==
  [c \in Range(FILE_COLS) \cup {"is_prime"} |->
     CASE c = "transaction_id" -> "T1"
       [] c = "order_date" -> "15/01/2023"
       [] c = "customer_id" -> "C1"
       [] c = "product_id" -> "P1"
       [] c = "product_name" -> "Galaxy Phone"
       [] c = "category" -> "Electronics"
       [] c = "subcategory" -> "Smartphones"
       [] c = "original_price_inr" -> "1,200"
       [] c = "discounted_price_inr" -> "900"
       [] c = "subtotal_inr" -> "950"
       [] c = "final_amount_inr" -> "1,000"
       [] c = "customer_rating" -> "4/5"
       [] c = "is_prime_member" -> "yes"
       [] c = "is_prime_eligible" -> "no"
       [] c = "is_prime" -> "1"
       [] c = "payment_method" -> "upi"
       [] c = "delivery_days" -> "3-5"
       [] c = "city" -> "bangalore"
       [] OTHER -> "Madras"]

\* a file with the columns cols (in order) and the given text rows
File(cols, rows) ==
  [cols |-> cols,
   rows |-> [i \in 1..Len(rows) |-> [c \in Range(cols) |-> rows[i][c]]]]

SeqsUpTo(S, n) == UNION {[1..m -> S] : m \in 0..n}

With(row, changes) == [c \in DOMAIN row |-> IF c \in DOMAIN changes THEN changes[c] ELSE row[c]]

\* files whose rows differ in the date text
DateTexts == {"15/01/2023", "01/15/2023", "05/06/2023", "2023-01-16", "not-a-date", ""}

DateFiles ==
  {File(FILE_COLS, [i \in 1..Len(ds) |-> With(BaseRow, "order_date" :> ds[i])]) :
     ds \in SeqsUpTo(DateTexts, MaxRows)}

\* files whose rows differ in the fields of the duplicate key
KeyRows ==
  {BaseRow,
   With(BaseRow, ("transaction_id" :> "T2") @@ ("final_amount_inr" :> "$1000.0")),
   With(BaseRow, "transaction_id" :> ""),
   With(BaseRow, ("transaction_id" :> "T4") @@ ("customer_id" :> "")),
   With(BaseRow, ("transaction_id" :> "T5") @@ ("product_id" :> "P2")),
   With(BaseRow, ("transaction_id" :> "T6") @@ ("final_amount_inr" :> "900"))}

KeyFiles == {File(FILE_COLS, rs) : rs \in SeqsUpTo(KeyRows, MaxRows)}

\* files of one row (alone, or after a row that is dropped) that differ in
\* the four price texts
PriceTexts == {"", "0", "-500", "1,000", "Price on request"}

PriceRows ==
  {With(BaseRow, ("final_amount_inr" :> f) @@ ("discounted_price_inr" :> d)
                 @@ ("subtotal_inr" :> s) @@ ("original_price_inr" :> o)) :
     f \in PriceTexts, d \in PriceTexts, s \in PriceTexts, o \in PriceTexts}

PriceFiles ==
  {File(FILE_COLS, <<r>>) : r \in PriceRows}
  \cup {File(FILE_COLS, <<With(BaseRow, "order_date" :> "not-a-date"), r>>) : r \in PriceRows}

\* files of one row that differ in the columns they have
OPTIONAL_COLS ==
  {"city", "customer_city", "payment_method", "is_prime_member", "is_prime",
   "is_prime_eligible", "final_amount_inr", "discounted_price_inr",
   "subtotal_inr", "original_price_inr"}

REQUIRED_COLS == {"order_date", "transaction_id", "customer_id", "product_id"}

ColumnOrders ==
  {FILE_COLS \o <<"is_prime">>,
   <<"customer_city", "is_prime">> \o Pick(FILE_COLS, {i \in 1..Len(FILE_COLS) : FILE_COLS[i] # "customer_city"}, 1)}

Without(cols, gone) == Pick(cols, {i \in 1..Len(cols) : cols[i] \notin gone}, 1)

ColumnFiles ==
  {File(Without(order, gone), <<BaseRow>>) : order \in ColumnOrders, gone \in SUBSET OPTIONAL_COLS}
  \cup {File(Without(FILE_COLS, {c}), <<BaseRow, BaseRow>>) : c \in REQUIRED_COLS}

\* files of one row that differ in one other field
FieldTexts ==
  {<<"is_prime_member", t>> : t \in {"", "1", "1.5", "TRUE", "maybe"}}
  \cup {<<"payment_method", t>> : t \in {"", "Paytm", "credit card", "cash", "Net Banking"}}
  \cup {<<"category", t>> : t \in {"", "Home & Kitchen", "Laptops", "electronics audio"}}
  \cup {<<"subcategory", t>> : t \in {"", "Furniture"}}
  \cup {<<"customer_rating", t>> : t \in {"", "0/10", "7", "-1", "4.5 stars"}}
  \cup {<<"delivery_days", t>> : t \in {"", "40-50", "45", "same day", "2"}}
  \cup {<<"city", t>> : t \in {"", "delhi  ncr", "Pune"}}
  \cup {<<"final_amount_inr", t>> : t \in {"5000", "5000.01", "20000.5", "50000.01", "100000", "100000.01"}}

FieldFiles ==
  {File(FILE_COLS, <<With(BaseRow, ft[1] :> ft[2])>>) : ft \in FieldTexts}
  \cup {File(FILE_COLS, <<With(BaseRow, ("category" :> ft[2]) @@ ("subcategory" :> "Furniture")
                                       @@ ("product_name" :> "Oak Desk"))>>) : ft \in FieldTexts}

InputFiles == DateFiles \cup KeyFiles \cup PriceFiles \cup ColumnFiles \cup FieldFiles

(***************************************************************************)
(* Specifications.                                                         *)
(***************************************************************************)
NotWritten == [written |-> FALSE]

NoError == [at |-> "", exc |-> ""]

Init ==
  /\ csv \in InputFiles
  /\ export = FALSE
  /\ pc = "read_raw"
  /\ raw = EmptyFrame
  /\ df = EmptyFrame
  /\ qa = NotWritten
  /\ db = EmptyFrame
  /\ eda = NotWritten
  /\ out = EmptyFrame
  /\ err = NoError
  /\ fn = "none"
  /\ arg = <<>>
  /\ res = NaN

Next ==
  \/ ReadRaw
  \/ LC_Read
  \/ LC_City
  \/ LC_Dates
  \/ LC_Prices
  \/ LC_Final
  \/ LC_Rating
  \/ LC_Prime
  \/ LC_Payment
  \/ LC_Delivery
  \/ LC_Category
  \/ LC_CityNorm
  \/ LC_Time
  \/ LC_Segment
  \/ LC_Dup
  \/ write_qa_report
  \/ save_to_sqlite
  \/ generate_eda
  \/ save_clean_csv

Spec == Init /\ [][Next]_vars

\* one normalizer call: the input is drawn, the call computes the result
InitFn ==
  /\ csv = File(<<>>, <<>>)
  /\ export = FALSE
  /\ pc = "idle"
  /\ raw = EmptyFrame
  /\ df = EmptyFrame
  /\ qa = NotWritten
  /\ db = EmptyFrame
  /\ eda = NotWritten
  /\ out = EmptyFrame
  /\ err = NoError
  /\ fn \in NORMALIZERS
  /\ arg \in FnInputs(fn)
  /\ res = Pending

SpecFn == InitFn /\ [][NextFn]_vars

\* load_and_clean called a second time on the same file, the outputs and
\* the variables of the first run still there
Again ==
  /\ pc = "done"
  /\ pc' = "lc_read"
  /\ UNCHANGED <<csv, export, raw, df, qa, db, eda, out, err>>
  /\ UNCHANGED fnVars

\* the files of the repeated run: rows that are duplicates of each other or
\* not, and files that differ in one field or in the columns they have
TwiceRows ==
  {BaseRow,
   With(BaseRow, ("transaction_id" :> "T2") @@ ("final_amount_inr" :> "$1000.0")),
   With(BaseRow, "transaction_id" :> ""),
   With(BaseRow, ("transaction_id" :> "T5") @@ ("product_id" :> "P2"))}

TwiceFiles ==
  {File(FILE_COLS, rs) : rs \in SeqsUpTo(TwiceRows, MaxRows)} \cup FieldFiles \cup ColumnFiles

InitTwice ==
  /\ csv \in TwiceFiles
  /\ export = FALSE
  /\ pc = "read_raw"
  /\ raw = EmptyFrame
  /\ df = EmptyFrame
  /\ qa = NotWritten
  /\ db = EmptyFrame
  /\ eda = NotWritten
  /\ out = EmptyFrame
  /\ err = NoError
  /\ fn = "none"
  /\ arg = <<>>
  /\ res = NaN

NextTwice ==
  \/ Next
  \/ Again

SpecTwice == InitTwice /\ [][NextTwice]_vars

(***************************************************************************)
(* Properties of the cleaned table and of the normalizers.                 *)
(***************************************************************************)
\* load_and_clean has just returned: df is the table it returned, and main
\* is about to pass it to the stages that follow
Returned == pc = "qa"

\* the raw row (as read, before any cleaning) a row of the table came from
RawOf(r) == raw.rows[r.idx]

\* C1: in every row of the table load_and_clean returns, final_amount_inr is
\* neither null nor negative, whatever the four price columns hold
C1_FinalAmountNeverNegativeOrNull ==
  Returned =>
    \A i \in 1..Len(df.rows) :
      /\ df.rows[i].c["final_amount_inr"].k = "num"
      /\ df.rows[i].c["final_amount_inr"].n >= 0

\* C2: every normalizer returns a value or the missing sentinel for every
\* input, a missing value included: no call raises
C2_NormalizersNeverRaise ==
  res # Pending => ~Raised(res)

\* the columns a file lacks
Lacks(cols) == \A c \in cols : ~HasCol(raw, c)

\* C3: a batch lacking every source column of city, payment_method, the prime
\* flag, or final_amount_inr or one of its fallback columns is still cleaned
\* to the end, the field holding its default ("Unknown", "Other", false, 0
\* where no price column is there at all)
C3_MissingColumnsDefaulted ==
  /\ (pc = "aborted" /\ ~qa.written /\ raw.cols # <<>>) =>
       \/ err.at \notin {"lc_city", "lc_prices", "lc_final", "lc_prime", "lc_payment"}
       \/ ~ \/ Lacks({"city"}) /\ Lacks({"customer_city"})
            \/ Lacks({"payment_method"})
            \/ Lacks({"is_prime_member", "is_prime", "is_prime_eligible"})
            \/ \E c \in {"final_amount_inr"} \cup Range(FALLBACK_COLS) : Lacks({c})
  /\ Returned =>
       \A i \in 1..Len(df.rows) :
         /\ Lacks({"city", "customer_city"}) => df.rows[i].c["city"] = Str("Unknown")
         /\ Lacks({"payment_method"}) => df.rows[i].c["payment_method"] = Str("Other")
         /\ Lacks({"is_prime_member", "is_prime", "is_prime_eligible"}) =>
              df.rows[i].c["is_prime"] = Bool(FALSE)
         /\ Lacks({"final_amount_inr"} \cup Range(FALLBACK_COLS)) =>
              df.rows[i].c["final_amount_inr"] = Num(0)

\* the order in which the price columns are tried
PriceOrder == <<"final_amount_inr", "discounted_price_inr", "subtotal_inr", "original_price_inr">>

\* the k-th candidate of row r: the normalized price of the raw cell, missing
\* where the file has no such column
Candidate(r, k) ==
  IF HasCol(raw, PriceOrder[k]) THEN clean_price(RawOf(r).c[PriceOrder[k]]) ELSE NaN

FirstCandidate(r) ==
  LET present == {k \in 1..Len(PriceOrder) : ~isna(Candidate(r, k))}
  IN IF present = {} THEN Num(0)
     ELSE Candidate(r, CHOOSE k \in present : \A j \in present : k <= j)

\* C4: final_amount_inr of every row is the first non-missing normalized value
\* among final_amount_inr, discounted_price_inr, subtotal_inr and
\* original_price_inr, in that order, and 0 only when all four are missing
C4_FirstNonMissingPriceWins ==
  Returned =>
    \A i \in 1..Len(df.rows) :
      df.rows[i].c["final_amount_inr"] = FirstCandidate(df.rows[i])

\* a returned row whose final amount and discounted price are missing and
\* whose subtotal and original price are two different amounts
C4_SubtotalTaken ==
  /\ Returned
  /\ \E i \in 1..Len(df.rows) :
       /\ isna(Candidate(df.rows[i], 1))
       /\ isna(Candidate(df.rows[i], 2))
       /\ ~isna(Candidate(df.rows[i], 3))
       /\ ~isna(Candidate(df.rows[i], 4))
       /\ Candidate(df.rows[i], 3) # Candidate(df.rows[i], 4)
       /\ df.rows[i].c["final_amount_inr"] = Candidate(df.rows[i], 3)

\* a raw order_date cell that parses as a date, day first or month first
Parseable(x) ==
  /\ x.k = "str"
  /\ \/ ElementParse(x.s, TRUE).k = "date"
     \/ ElementParse(x.s, FALSE).k = "date"

ParseableRows == {i \in 1..Len(raw.rows) : Parseable(raw.rows[i].c["order_date"])}

\* C5: the returned table holds exactly the input rows whose order_date parses
\* day first or month first, each with a non-null order_date
C5_ExactlyParseableRowsSurvive ==
  Returned =>
    /\ {df.rows[i].idx : i \in 1..Len(df.rows)} = ParseableRows
    /\ \A i \in 1..Len(df.rows) : df.rows[i].c["order_date"].k = "date"

\* the duplicate key of a row of the cleaned table
KeyOf(r) == [k \in 1..Len(dup_keys) |-> r.c[dup_keys[k]]]

\* C6: a row is flagged is_possible_duplicate exactly when another surviving
\* row has the same (customer_id, product_id, order_date, final_amount_inr),
\* whatever the transaction_id values and also where a key field is null
C6_DuplicateFlagMatchesGroups ==
  (Returned /\ \A k \in 1..Len(dup_keys) : HasCol(df, dup_keys[k])) =>
    \A i \in 1..Len(df.rows) :
      df.rows[i].c["is_possible_duplicate"] =
        Bool(\E j \in 1..Len(df.rows) : j # i /\ KeyOf(df.rows[j]) = KeyOf(df.rows[i]))

CATEGORIES ==
  {"Smartphones", "Laptops", "Tablets", "Smart Watches", "TV & Entertainment", "Audio", "Other"}

PAYMENT_METHODS ==
  {"UPI", "Credit Card", "Debit Card", "COD", "Net Banking", "Wallet", "BNPL", "Other"}

SEGMENTS == {"Unknown", "Low", "Mid", "High", "Premium", "Luxury"}

InSet(x, S) == x.k = "str" /\ x.s \in S

\* C7: in every row of the cleaned table category, payment_method and
\* order_value_segment are members of their enumerations
C7_ClosedEnumerations ==
  Returned =>
    \A i \in 1..Len(df.rows) :
      /\ InSet(df.rows[i].c["category"], CATEGORIES)
      /\ InSet(df.rows[i].c["payment_method"], PAYMENT_METHODS)
      /\ InSet(df.rows[i].c["order_value_segment"], SEGMENTS)

\* a returned row whose raw payment text is no label of the enumeration
C7_UnlistedPaymentCleaned ==
  /\ Returned
  /\ HasCol(raw, "payment_method")
  /\ \E i \in 1..Len(df.rows) :
       /\ RawOf(df.rows[i]).c["payment_method"] = Str("cash")
       /\ df.rows[i].c["payment_method"] = Str("Other")
       /\ InSet(df.rows[i].c["category"], CATEGORIES)
       /\ InSet(df.rows[i].c["order_value_segment"], SEGMENTS)

\* C8: clean_rating returns missing or a rating r with 0 < r <= 5, for every
\* input; a zero or negative rating, plain or as a ratio, gives missing
C8_RatingInRange ==
  (fn = "clean_rating" /\ res # Pending) =>
    \/ isna(res)
    \/ res.k = "num" /\ 0 < res.n /\ res.n <= 5 * Scale

\* C9: clean_delivery_days returns missing or a number d with 0 <= d <= 30,
\* for every input, single numbers and ranges "A-B" alike
C9_DeliveryDaysInRange ==
  (fn = "clean_delivery_days" /\ res # Pending) =>
    \/ isna(res)
    \/ res.k = "num" /\ 0 <= res.n /\ res.n <= 30 * Scale

\* C10: the QA report has rows_before = rows_after + dropped, rows_before the
\* raw row count, rows_after the cleaned row count and dropped the number of
\* input rows whose order_date does not parse
C10_QaCountsMatchUnparseableDates ==
  qa.written =>
    /\ qa.rows_before = Len(raw.rows)
    /\ qa.rows_after = Len(df.rows)
    /\ qa.rows_before = qa.rows_after + qa.rows_dropped_due_to_invalid_dates
    /\ qa.rows_dropped_due_to_invalid_dates = Len(raw.rows) - Cardinality(ParseableRows)

\* C11: when main aborts, at whatever stage, neither the transactions table
\* of the SQLite file nor the cleaned CSV has been written or replaced
C11_AbortWritesNoCanonicalTable ==
  pc = "aborted" => (db = EmptyFrame /\ out = EmptyFrame)

\* the label of the rule that lists keyword k
GroupLabel(groups, k) ==
  groups[CHOOSE i \in 1..Len(groups) : k \in groups[i][1]][2]

\* C12: a source text made of one keyword of a category rule is mapped by
\* clean_category to the label of that rule
C12_CategoryKeywordGivesItsLabel ==
  (fn = "clean_category" /\ res # Pending /\ arg[1] \in KeywordCells) =>
    res = Str(GroupLabel(CATEGORY_KEYWORDS, arg[1].s))

\* C13: a payment text made of one keyword of a payment rule, in any letter
\* case, is mapped by clean_payment to the label of that rule; a missing
\* input gives Other, and so does a text that holds no keyword
C13_PaymentKeywordGivesItsLabel ==
  (fn = "clean_payment" /\ res # Pending) =>
    /\ arg[1] \in PaymentKeywordCells =>
         res = Str(GroupLabel(PAYMENT_KEYWORDS, StrLower(arg[1].s)))
    /\ isna(arg[1]) => res = Str("Other")
    /\ arg[1] = Str("cash") => res = Str("Other")

\* the labels the three sources of a clean_category call give on their own
SourceLabels == [i \in 1..3 |-> SourceLabel(arg[i])]

Matching == {i \in 1..3 : SourceLabels[i] # ""}

\* C14: clean_category returns the label of the first of category,
\* subcategory, product_name that is non-missing and matches a rule, and
\* "Other" when none does
C14_FirstMatchingSourceWins ==
  (fn = "clean_category" /\ res # Pending) =>
    res = Str(IF Matching = {} THEN "Other"
              ELSE SourceLabels[CHOOSE i \in Matching : \A j \in Matching : i <= j])

\* a call whose category is given and matches no rule, and whose subcategory
\* and product name match two different rules
C14_SubcategoryBeforeProductName ==
  /\ fn = "clean_category"
  /\ res # Pending
  /\ ~isna(arg[1])
  /\ Matching = {2, 3}
  /\ SourceLabels[2] # SourceLabels[3]
  /\ res = Str(SourceLabels[2])

\* the text to_bool tests: stripped and lower-cased
FlagText(x) == StrLower(Strip(x.s))

\* C15: to_bool gives true for the number 1 and false for every other
\* number; true for the texts true, yes, y, 1 in any case and with any
\* surrounding whitespace; false for every other input
C15_ToBoolTable ==
  (fn = "to_bool" /\ res # Pending /\ ~isna(arg[1])) =>
    res = Bool(\/ arg[1].k = "num" /\ arg[1].n = 1 * Scale
               \/ arg[1] = Bool(TRUE)
               \/ arg[1].k = "str" /\ FlagText(arg[1]) \in {"true", "yes", "y", "1"})

\* a text that is one plain decimal, with or without a minus sign
IsDecimalText(s) ==
  \/ s # "" /\ DecimalRun(s) = Len(s)
  \/ Ch(s, 1) = "-" /\ Len(s) > 1 /\ DecimalRun(SubSeq(s, 2, Len(s))) = Len(s) - 1

\* a text that is N/D, two plain decimals around one slash
IsRatioText(s) ==
  /\ RatioMatch(s).ok
  /\ s = RatioMatch(s).a \o "/" \o RatioMatch(s).b

\* N/D on the 5-point scale, capped at 5 (to two decimals)
Rescaled(num, den) == Num(Min(RoundRatio5(num.n, den.n), 5 * Scale))

\* C16: for a rating written N/D with D > 0 (and N > 0) clean_rating returns
\* N/D x 5 capped at 5; for a plain decimal v it returns missing when v <= 0
\* and min(v, 5) otherwise
C16_RatingRescaled ==
  (fn = "clean_rating" /\ res # Pending /\ arg[1].k = "str") =>
    /\ (IsRatioText(arg[1].s) /\ ParseFloat(RatioMatch(arg[1].s).b).n > 0
                              /\ ParseFloat(RatioMatch(arg[1].s).a).n > 0) =>
         res = Rescaled(ParseFloat(RatioMatch(arg[1].s).a), ParseFloat(RatioMatch(arg[1].s).b))
    /\ IsDecimalText(arg[1].s) =>
         res = IF ParseFloat(arg[1].s).n <= 0 THEN NaN
               ELSE Num(Min(ParseFloat(arg[1].s).n, 5 * Scale))

\* the text of a delivery estimate as clean_delivery_days reads it
DeliveryText == StrLower(Strip(StrOf(arg[1])))

\* the integer a text starts with
LeadingInt(s) == DigitsValue(SubSeq(s, 1, DigitRun(s)))

\* C17: clean_delivery_days gives 0 for "same day", "same-day" and "today",
\* (A+B)/2 for a range "A-B", n for a leading integer n with 0 <= n <= 30,
\* and missing for a leading integer above 30, a negative number and every
\* other input
C17_DeliveryDaysTable ==
  (fn = "clean_delivery_days" /\ res # Pending) =>
    res = IF isna(arg[1]) THEN NaN
          ELSE IF DeliveryText \in {"same day", "same-day", "today"} THEN Num(0)
          ELSE IF RangeMatch(DeliveryText).ok
               THEN Num(((LeadingInt(RangeMatch(DeliveryText).a)
                          + LeadingInt(RangeMatch(DeliveryText).b)) * Scale) \div 2)
          ELSE IF DigitRun(DeliveryText) > 0 /\ LeadingInt(DeliveryText) <= 30
               THEN Num(LeadingInt(DeliveryText) * Scale)
          ELSE NaN

\* the call on "3-5", which gives 4.0
C17_RangeAveraged ==
  /\ fn = "clean_delivery_days"
  /\ arg = <<Str("3-5")>>
  /\ res = Num(4 * Scale)

\* the buckets of order_value_segment from the lowest to the highest
SegmentOrder == <<"Low", "Mid", "High", "Premium", "Luxury">>

Rank(label) == CHOOSE i \in 1..Len(SegmentOrder) : SegmentOrder[i] = label

\* the amounts (thousandths) of bucket i: above the bound of the bucket
\* before it, up to and including its own bound
UpperBound == <<5000 * Scale, 20000 * Scale, 50000 * Scale, 100000 * Scale>>

InBucket(n, i) ==
  /\ i = 1 \/ n > UpperBound[i - 1]
  /\ i = Len(SegmentOrder) \/ n <= UpperBound[i]

\* C18: value_segment gives "Unknown" for a missing amount and otherwise the
\* one bucket whose bounds (upper bound inclusive) hold the amount; a larger
\* amount never gets a lower bucket
C18_SegmentBuckets ==
  (fn = "value_segment" /\ res # Pending) =>
    IF isna(arg[1]) THEN res = Str("Unknown")
    ELSE /\ res.k = "str"
         /\ res.s \in Range(SegmentOrder)
         /\ \A i \in 1..Len(SegmentOrder) : InBucket(arg[1].n, i) <=> i = Rank(res.s)
         /\ \A x \in NumCells :
              x.n <= arg[1].n => Rank(value_segment(x).s) <= Rank(res.s)

\* the call on 5000.01, the first amount above the bound of Low
C18_JustAboveLow ==
  /\ fn = "value_segment"
  /\ arg = <<Num(5000 * Scale + 10)>>
  /\ res = Str("Mid")

\* a price text without its leading currency symbol, rupee or dollar
Unsigned(s) == IF Ch(s, 1) \in {RUPEE, "$"} THEN SubSeq(s, 2, Len(s)) ELSE s

\* a decimal with thousands separators: it starts with a digit and is a
\* plain decimal once the commas are taken out
IsPriceText(s) ==
  /\ IsDigit(Ch(Unsigned(s), 1))
  /\ DecimalRun(RemoveChars(Unsigned(s), {","})) = Len(RemoveChars(Unsigned(s), {","}))

\* C19: for a decimal price text with an optional rupee or dollar sign and
\* thousands separators, clean_price returns the number the text denotes
\* once sign and separators are removed
C19_PriceValueKept ==
  (fn = "clean_price" /\ res # Pending /\ arg[1].k = "str" /\ IsPriceText(arg[1].s)) =>
    res = ParseFloat(RemoveChars(Unsigned(arg[1].s), {","}))

\* C20: clean_city applied to its own result gives that result again; no
\* value of CITY_FIX is one of its keys, and "Unknown" gives "Unknown"
C20_CleanCityIdempotent ==
  /\ (fn = "clean_city" /\ res # Pending) => clean_city(res) = res.s
  /\ \A e \in CITY_FIX, f \in CITY_FIX : e[2] # f[1]
  /\ clean_city(Str("Unknown")) = "Unknown"

\* C21: clean_category applied to one of its seven labels alone (no
\* subcategory, no product name) returns that label; so its result, given
\* back to it alone, is returned unchanged
C21_CanonicalLabelKept ==
  (fn = "clean_category" /\ res # Pending) =>
    /\ (arg[1] \in LabelCells /\ isna(arg[2]) /\ isna(arg[3])) => res = arg[1]
    /\ res \in LabelCells
    /\ clean_category(res, NaN, NaN) = res.s

\* the call on the label "TV & Entertainment" alone
C21_TvLabelKept ==
  /\ fn = "clean_category"
  /\ arg = <<Str("TV & Entertainment"), NaN, NaN>>
  /\ res = Str("TV & Entertainment")

\* C22: when the file has both a city and a customer_city column, the city
\* of every cleaned row is the normalized value of its "city" cell, whatever
\* the order of the two columns in the file
C22_CityColumnPreferred ==
  (Returned /\ HasCol(raw, "city") /\ HasCol(raw, "customer_city")) =>
    \A i \in 1..Len(df.rows) :
      df.rows[i].c["city"] = Str(clean_city(RawOf(df.rows[i]).c["city"]))

\* the columns a prime flag can come from, in the order they are preferred
PrimeOrder == <<"is_prime_member", "is_prime", "is_prime_eligible">>

PrimePresent == {k \in 1..Len(PrimeOrder) : HasCol(raw, PrimeOrder[k])}

\* the flag of row r as the file gives it: to_bool of the cell of the first
\* column present, false where the file has none of the three
PrimeFlag(r) ==
  IF PrimePresent = {} THEN Bool(FALSE)
  ELSE to_bool(RawOf(r).c[PrimeOrder[CHOOSE k \in PrimePresent : \A j \in PrimePresent : k <= j]])

\* C23: in every cleaned row is_prime is a boolean: to_bool of the first
\* column present among is_prime_member, is_prime, is_prime_eligible, and
\* false when the file has none of them
C23_PrimeFlagFromFirstColumn ==
  Returned =>
    \A i \in 1..Len(df.rows) :
      /\ df.rows[i].c["is_prime"].k = "bool"
      /\ df.rows[i].c["is_prime"] = PrimeFlag(df.rows[i])

\* a file without is_prime_member whose is_prime and is_prime_eligible cells
\* give different flags: the cleaned row has the flag of is_prime
C23_IsPrimeBeforeEligible ==
  /\ Returned
  /\ PrimePresent = {2, 3}
  /\ \E i \in 1..Len(df.rows) :
       /\ to_bool(RawOf(df.rows[i]).c["is_prime"]) = Bool(TRUE)
       /\ to_bool(RawOf(df.rows[i]).c["is_prime_eligible"]) = Bool(FALSE)
       /\ df.rows[i].c["is_prime"] = Bool(TRUE)

\* one raw date read on its own: day first, and month first only when the
\* day-first reading is no date
DayFirstThenMonthFirst(x) ==
  IF x.k # "str" THEN NaN
  ELSE IF ElementParse(x.s, TRUE).k = "date" THEN ElementParse(x.s, TRUE)
  ELSE ElementParse(x.s, FALSE)

\* C24: every raw date is read day first, month first only when the
\* day-first reading fails, and is left null (its row dropped) only when both
\* readings fail
C24_DayFirstThenMonthFirst ==
  Returned =>
    \A i \in 1..Len(raw.rows) :
      IF isna(DayFirstThenMonthFirst(raw.rows[i].c["order_date"]))
      THEN \A j \in 1..Len(df.rows) : df.rows[j].idx # i
      ELSE \E j \in 1..Len(df.rows) :
             /\ df.rows[j].idx = i
             /\ df.rows[j].c["order_date"] = DayFirstThenMonthFirst(raw.rows[i].c["order_date"])

\* the second call of load_and_clean has returned: the first run has written
\* its table to the database, and df is the table of the second call
ReturnedAgain == pc = "qa" /\ qa.written

DOWNSTREAM == {"qa", "sqlite", "eda", "export"}

\* C26: write_qa_report, save_to_sqlite, generate_eda and save_clean_csv
\* leave the cleaned table as load_and_clean returned it: no step of theirs
\* changes its columns, its rows or a value
C26_DownstreamOnlyReads ==
  [][(pc \in DOWNSTREAM) => (df' = df)]_vars

\* a run in which the four stages have all run on a table that has rows
C26_AllStagesRan ==
  /\ pc = "done"
  /\ qa.written
  /\ eda.written
  /\ export
  /\ Len(df.rows) > 0
  /\ db = df
  /\ out = df

\* two rows of the cleaned table with the same non-null customer, product,
\* parsed date and final amount, whose raw amount texts differ
SameOrderDifferentText(r, q) ==
  /\ r.idx # q.idx
  /\ KeyOf(r) = KeyOf(q)
  /\ \A k \in 1..Len(dup_keys) : ~isna(r.c[dup_keys[k]])
  /\ RawOf(r).c["final_amount_inr"] # RawOf(q).c["final_amount_inr"]

\* C27: the duplicate flags are set on the parsed order_date and the final
\* amount after the fallback, of the rows that survived: two rows with equal
\* customer, product and date whose raw amount texts differ but normalize to
\* the same amount are both flagged
C27_DuplicateKeyUsesCleanedValues ==
  (Returned /\ HasCol(raw, "final_amount_inr")
            /\ \A k \in 1..Len(dup_keys) : HasCol(df, dup_keys[k])) =>
    \A i, j \in 1..Len(df.rows) :
      SameOrderDifferentText(df.rows[i], df.rows[j]) =>
        /\ df.rows[i].c["is_possible_duplicate"] = Bool(TRUE)
        /\ df.rows[j].c["is_possible_duplicate"] = Bool(TRUE)

\* a row none of whose four price cells gives a price
NoUsablePrice(r) == \A k \in 1..Len(PriceOrder) : isna(Candidate(r, k))

\* C28: no row of the cleaned table has the segment "Unknown"; a row with no
\* usable price in any source column has the amount 0 and the segment "Low"
C28_SegmentNeverUnknown ==
  Returned =>
    \A i \in 1..Len(df.rows) :
      /\ InSet(df.rows[i].c["order_value_segment"], Range(SegmentOrder))
      /\ NoUsablePrice(df.rows[i]) =>
           /\ df.rows[i].c["final_amount_inr"] = Num(0)
           /\ df.rows[i].c["order_value_segment"] = Str("Low")

\* a cleaned row whose four price cells are all missing or placeholders
C28_UnpricedRowIsLow ==
  /\ Returned
  /\ \E i \in 1..Len(df.rows) :
       /\ NoUsablePrice(df.rows[i])
       /\ df.rows[i].c["order_value_segment"] = Str("Low")

\* the six revenue extracts with the column each is grouped by
Extracts ==
  << <<eda.category_performance, "category">>,
     <<eda.city_revenue, "city">>,
     <<eda.payment_share, "payment_method">>,
     <<eda.sales_by_year, "order_year">>,
     <<eda.monthly_revenue, "month_label">>,
     <<eda.prime_vs_nonprime, "is_prime">> >>

RECURSIVE SumRevenue(_)
SumRevenue(groups) ==
  IF groups = {} THEN 0
  ELSE LET g == CHOOSE x \in groups : TRUE IN g.revenue + SumRevenue(groups \ {g})

RECURSIVE SumCount(_)
SumCount(groups) ==
  IF groups = {} THEN 0
  ELSE LET g == CHOOSE x \in groups : TRUE IN g.count + SumCount(groups \ {g})

\* C29: each of the extracts by category, city, payment_method, order_year,
\* month_label and is_prime partitions the cleaned table: every row is in
\* exactly one group, the group sizes add up to the number of rows and the
\* group revenues to the total final_amount_inr (amounts in exact thousandths)
C29_ExtractsPartitionTable ==
  eda.written =>
    \A e \in 1..Len(Extracts) :
      /\ \A i \in 1..Len(df.rows) :
           Cardinality({g \in Extracts[e][1] : g.key = <<df.rows[i].c[Extracts[e][2]]>>}) = 1
      /\ SumCount(Extracts[e][1]) = Len(df.rows)
      /\ SumRevenue(Extracts[e][1]) = SumAmount(df.rows, 1..Len(df.rows))
      /\ SumRevenue(Extracts[e][1]) = eda.total_revenue

\* extracts of a table of three rows, two of them of the same month: two
\* monthly groups, one of two rows
C29_TwoMonths ==
  /\ eda.written
  /\ Len(df.rows) = 3
  /\ Cardinality(eda.monthly_revenue) = 2
  /\ \E g \in eda.monthly_revenue : g.count = 2 /\ g.revenue > 0
  /\ eda.total_revenue > 0

\* the label the keyword rules alone give a source, "" when none matches
KeywordOnly(source) == IF isna(source) THEN "" ELSE KeywordLabel(CategoryText(source))

\* C30: the table of exact strings of clean_category never decides a result:
\* every key of the table is matched by a keyword rule, the first rule that
\* matches gives the label of the table entry, and every call returns what
\* the keyword rules alone give
C30_UnifiedTableNeverDecides ==
  (fn = "clean_category" /\ res # Pending) =>
    /\ arg[1] \in UnifiedCells =>
         /\ KeywordLabel(arg[1].s) = UnifiedLabel(arg[1].s)
         /\ res = Str(UnifiedLabel(arg[1].s))
    /\ res = Str(FirstLabel(KeywordOnly(arg[1]), KeywordOnly(arg[2]), KeywordOnly(arg[3])))

\* the call on the key "electronics smart watch" alone
C30_KeyGivenAlone ==
  /\ fn = "clean_category"
  /\ arg = <<Str("electronics smart watch"), NaN, NaN>>
  /\ res = Str("Smart Watches")

=============================================================================
